---- MODULE Spec2Model ----
(***************************************************************************)
(* A model of callix: the template engine (src/src/template.rs) and the    *)
(* request builder with its retry loop (src/src/request.rs).               *)
(*                                                                         *)
(* A Rust String is a sequence of one-character strings.  Positions are    *)
(* 1-based here and 0-based in Rust; None of str::find is position 0.      *)
(***************************************************************************)
EXTENDS Integers, Sequences, FiniteSets, TLC

VARIABLES
    template,         \* the &str handed to TemplateEngine::render
    variables,        \* the HashMap<String, Value>: render's argument, RequestBuilder.variables
    calls,            \* the render calls made so far: the visiting order and the result
    provider_config,  \* RequestBuilder.provider_config: base_url, headers
    endpoint_config,  \* RequestBuilder.endpoint_config: path, method, body_template, query_params
    max_retries,      \* RequestBuilder.max_retries
    custom_headers,   \* RequestBuilder.custom_headers
    var_order,        \* the order in which `variables` yields its entries during send
    pc,               \* "idle", "building", "attempting", "sleeping" or "done"
    attempt,          \* the loop variable of send
    last_error,       \* the local last_error of send
    result,           \* what send returned
    executions,       \* calls of execute_request
    sent,             \* the requests handed to the transport, in order
    outcomes,         \* what the transport answered to each of them
    delays            \* completed sleep(retry_delay) calls

svars == <<provider_config, endpoint_config, max_retries, custom_headers, var_order, pc,
           attempt, last_error, result, executions, sent, outcomes, delays>>

vars == <<template, variables, calls, provider_config, endpoint_config, max_retries,
          custom_headers, var_order, pc, attempt, last_error, result, executions, sent,
          outcomes, delays>>

----------------------------------------------------------------------------
(* Bounds *)

MaxTokens == 5   \* a template is at most this many tokens long
MaxCalls == 2    \* render calls on one (template, variables)
MaxRetries == 3  \* max_retries is at most this

----------------------------------------------------------------------------
(* str helpers: contains, find, replace *)

Str1(c) == <<c>>

Open == <<"{", "{">>

Close == <<"}", "}">>

MatchAt(text, pat, i) ==
    /\ i + Len(pat) - 1 <= Len(text)
    /\ \A j \in 1..Len(pat) : text[i + j - 1] = pat[j]

\* str::find: the position of the first match, 0 when there is none.
Find(text, pat) ==
    LET hits == {i \in 1..Len(text) : MatchAt(text, pat, i)}
    IN  IF hits = {} THEN 0 ELSE CHOOSE i \in hits : \A k \in hits : i <= k

Contains(text, pat) == Find(text, pat) # 0

RECURSIVE ReplaceFrom(_, _, _, _)
ReplaceFrom(text, pat, rep, i) ==
    IF i > Len(text) THEN <<>>
    ELSE IF MatchAt(text, pat, i)
         THEN rep \o ReplaceFrom(text, pat, rep, i + Len(pat))
         ELSE <<text[i]>> \o ReplaceFrom(text, pat, rep, i + 1)

\* str::replace: every non-overlapping match, left to right.
Replace(text, pat, rep) == ReplaceFrom(text, pat, rep, 1)

RECURSIVE Join(_, _)
Join(parts, sep) ==
    IF parts = <<>> THEN <<>>
    ELSE IF Len(parts) = 1 THEN Head(parts)
         ELSE Head(parts) \o sep \o Join(Tail(parts), sep)

----------------------------------------------------------------------------
(* serde_json::Value and its text forms *)

StringV(s) == [kind |-> "String", s |-> s, n |-> 0, b |-> FALSE, items |-> <<>>]

NumberV(n) == [kind |-> "Number", s |-> <<>>, n |-> n, b |-> FALSE, items |-> <<>>]

BoolV(b) == [kind |-> "Bool", s |-> <<>>, n |-> 0, b |-> b, items |-> <<>>]

NullV == [kind |-> "Null", s |-> <<>>, n |-> 0, b |-> FALSE, items |-> <<>>]

\* items: the elements, in order
ArrayV(items) == [kind |-> "Array", s |-> <<>>, n |-> 0, b |-> FALSE, items |-> items]

\* items: the entries [key, value], in key order
ObjectV(items) == [kind |-> "Object", s |-> <<>>, n |-> 0, b |-> FALSE, items |-> items]

Digit(d) == <<"0", "1", "2", "3", "4", "5", "6", "7", "8", "9">>[d + 1]

RECURSIVE NatToString(_)
NatToString(n) ==
    IF n < 10 THEN <<Digit(n)>> ELSE NatToString(n \div 10) \o <<Digit(n % 10)>>

\* Number::to_string, for the integers
NumberToString(n) == IF n < 0 THEN <<"-">> \o NatToString(-n) ELSE NatToString(n)

BoolToString(b) == IF b THEN <<"t", "r", "u", "e">> ELSE <<"f", "a", "l", "s", "e">>

NullString == <<"n", "u", "l", "l">>

RECURSIVE EscapeJson(_)
EscapeJson(s) ==
    IF s = <<>> THEN <<>>
    ELSE (IF Head(s) \in {"\"", "\\"} THEN <<"\\", Head(s)>> ELSE <<Head(s)>>)
         \o EscapeJson(Tail(s))

QuoteJson(s) == <<"\"">> \o EscapeJson(s) \o <<"\"">>

\* serde_json::to_string: compact JSON
RECURSIVE ToJson(_)
ToJson(value) ==
    CASE value.kind = "String" -> QuoteJson(value.s)
      [] value.kind = "Number" -> NumberToString(value.n)
      [] value.kind = "Bool" -> BoolToString(value.b)
      [] value.kind = "Null" -> NullString
      [] value.kind = "Array" ->
            <<"[">>
            \o Join([i \in 1..Len(value.items) |-> ToJson(value.items[i])], <<",">>)
            \o <<"]">>
      [] value.kind = "Object" ->
            <<"{">>
            \o Join([i \in 1..Len(value.items) |->
                        QuoteJson(value.items[i].key) \o <<":">>
                        \o ToJson(value.items[i].value)], <<",">>)
            \o <<"}">>

\* TemplateEngine::value_to_string.  serde_json::to_string of a Value does not
\* fail, so the Err of the Array/Object arm is not an outcome.
value_to_string(value) ==
    CASE value.kind = "String" -> value.s
      [] value.kind = "Number" -> NumberToString(value.n)
      [] value.kind = "Bool" -> BoolToString(value.b)
      [] value.kind = "Null" -> NullString
      [] value.kind \in {"Array", "Object"} -> ToJson(value)

----------------------------------------------------------------------------
(* Results: Ok(String), Err(CallixError) and a panic of the thread *)

Res(kind, text, status, call) == [kind |-> kind, text |-> text, status |-> status, call |-> call]

None == Res("None", <<>>, 0, 0)

Ok(text) == Res("Ok", text, 0, 0)

MissingPrefix ==
    <<"M", "i", "s", "s", "i", "n", "g", " ",
      "v", "a", "r", "i", "a", "b", "l", "e", ":", " ">>

\* CallixError::TemplateError(format!("Missing variable: {}", var_name))
TemplateError(var_name) == Res("TemplateError", MissingPrefix \o var_name, 0, 0)

\* &text[start + 2..end] with start + 2 > end: "slice index starts at .. but ends at .."
Panic == Res("Panic", <<>>, 0, 0)

\* CallixError::InvalidMethod(method.to_string())
InvalidMethod(method) == Res("InvalidMethod", method, 0, 0)

\* CallixError::HttpError(e), e the reqwest::Error of transport call number `call`
HttpError(call) == Res("HttpError", <<>>, 0, call)

MaxRetriesExceeded == Res("MaxRetriesExceeded", <<>>, 0, 0)

\* Ok(CallixResponse::new(response)), the response of transport call number `call`
Response(status, call) == Res("Response", <<>>, status, call)

----------------------------------------------------------------------------
(* TemplateEngine *)

\* format!("{{{{{}}}}}", key)
Placeholder(key) == Open \o key \o Close

validate_no_missing_vars(text) ==
    IF Contains(text, Open) /\ Contains(text, Close)
    THEN LET start == Find(text, Open)
             end == Find(text, Close)
         IN  IF start + 2 > end
             THEN Panic
             ELSE TemplateError(SubSeq(text, start + 2, end - 1))
    ELSE Ok(text)

\* The for loop of render: the entries of the map, visited in `order`; `text`
\* is the local `result`.
RECURSIVE RenderLoop(_, _, _)
RenderLoop(text, map, order) ==
    IF order = <<>> THEN text
    ELSE LET key == Head(order)
             placeholder == Placeholder(key)
             replaced ==
                 IF Contains(text, placeholder)
                 THEN Replace(text, placeholder, value_to_string(map[key]))
                 ELSE text
         IN  RenderLoop(replaced, map, Tail(order))

\* TemplateEngine::render.  `order` is the order in which the HashMap yields its
\* entries, which the standard library leaves unspecified.
render(tmpl, map, order) == validate_no_missing_vars(RenderLoop(tmpl, map, order))

\* The orders a HashMap with these keys can be iterated in.
Orders(keys) ==
    {o \in [1..Cardinality(keys) -> keys] : \A i, j \in DOMAIN o : i # j => o[i] # o[j]}

----------------------------------------------------------------------------
(* The inputs of render *)

Tokens == {Open, Close, Str1("{"), Str1("}"), Str1(" "), Str1("a")}

RECURSIVE Flatten(_)
Flatten(parts) == IF parts = <<>> THEN <<>> ELSE Head(parts) \o Flatten(Tail(parts))

Templates == {Flatten(ts) : ts \in UNION {[1..n -> Tokens] : n \in 0..MaxTokens}}

Names == {Str1("a"), Str1("b")}

Values ==
    { StringV(Str1("x")),
      StringV(Placeholder(Str1("b"))),
      NumberV(42),
      ObjectV(<<[key |-> Str1("k"),
                 value |-> ObjectV(<<[key |-> Str1("j"),
                                      value |-> ArrayV(<<BoolV(TRUE), NullV,
                                                         StringV(Open)>>)]>>)]>>) }

VariableSets == UNION {[keys -> Values] : keys \in SUBSET Names}

----------------------------------------------------------------------------
(* parse_method *)

LowerCase ==
    <<"a", "b", "c", "d", "e", "f", "g", "h", "i", "j", "k", "l", "m",
      "n", "o", "p", "q", "r", "s", "t", "u", "v", "w", "x", "y", "z">>

UpperCase ==
    <<"A", "B", "C", "D", "E", "F", "G", "H", "I", "J", "K", "L", "M",
      "N", "O", "P", "Q", "R", "S", "T", "U", "V", "W", "X", "Y", "Z">>

\* str::to_uppercase, for ASCII text
to_uppercase(s) ==
    [i \in 1..Len(s) |->
        IF \E k \in 1..Len(LowerCase) : LowerCase[k] = s[i]
        THEN UpperCase[CHOOSE k \in 1..Len(LowerCase) : LowerCase[k] = s[i]]
        ELSE s[i]]

MethodNames ==
    { <<"G", "E", "T">>, <<"P", "O", "S", "T">>, <<"P", "U", "T">>,
      <<"D", "E", "L", "E", "T", "E">>, <<"P", "A", "T", "C", "H">>,
      <<"H", "E", "A", "D">>, <<"O", "P", "T", "I", "O", "N", "S">> }

\* parse_method without to_uppercase: only the upper-case spelling resolves.
parse_method_case_sensitive(method) ==
    IF method \in MethodNames THEN Ok(method) ELSE InvalidMethod(method)

\* Ok(Method::X) carries the name of X.
parse_method(method) ==
    IF to_uppercase(method) \in MethodNames
    THEN Ok(to_uppercase(method))
    ELSE InvalidMethod(method)

----------------------------------------------------------------------------
(* RequestBuilder: build_url and execute_request *)

NoBody == [some |-> FALSE, text |-> <<>>]

SomeBody(text) == [some |-> TRUE, text |-> text]

NoRequest == [method |-> <<>>, url |-> <<>>, headers |-> <<>>, body |-> NoBody]

Built(request) == [kind |-> "Ok", request |-> request, error |-> None]

Failed(error) == [kind |-> error.kind, request |-> NoRequest, error |-> error]

\* The position of the first result that is not Ok, 0 when all are: where a loop
\* with `?` on each result returns.
FirstFailure(results) ==
    LET bad == {i \in 1..Len(results) : results[i].kind # "Ok"}
    IN  IF bad = {} THEN 0 ELSE CHOOSE i \in bad : \A k \in bad : i <= k

\* The closure of build_url: render(v).unwrap_or_else(|_| v.clone()).  A panic
\* inside render is no Err and is not caught.
query_value(v) ==
    LET rendered == render(v, variables, var_order)
    IN  IF rendered.kind = "TemplateError" THEN Ok(v) ELSE rendered

\* build_url; q_order is the order in which query_params yields its entries.
build_url(q_order) ==
    LET path == render(endpoint_config.path, variables, var_order)
        values == [i \in 1..Len(q_order) |-> query_value(endpoint_config.query_params[q_order[i]])]
        params == [i \in 1..Len(q_order) |-> q_order[i] \o <<"=">> \o values[i].text]
    IN  IF path.kind # "Ok" THEN path
        ELSE IF q_order = <<>> THEN Ok(provider_config.base_url \o path.text)
        ELSE IF FirstFailure(values) # 0 THEN values[FirstFailure(values)]
        ELSE Ok(provider_config.base_url \o path.text \o <<"?">> \o Join(params, <<"&">>))

\* execute_request up to request.send(): the request handed to the transport, or
\* the error of the first `?` that returns.  h_order and c_order are the orders in
\* which provider_config.headers and custom_headers yield their entries.
\* RequestBuilder::header of reqwest appends, so every header call adds an entry.
assemble(h_order, c_order, q_order) ==
    LET url == build_url(q_order)
        method == parse_method(endpoint_config.method)
        rendered == [i \in 1..Len(h_order) |->
                        render(provider_config.headers[h_order[i]], variables, var_order)]
        provided == [i \in 1..Len(h_order) |-> [name |-> h_order[i], value |-> rendered[i].text]]
        custom == [i \in 1..Len(c_order) |-> [name |-> c_order[i], value |-> custom_headers[c_order[i]]]]
        body == IF endpoint_config.body_template.some
                THEN render(endpoint_config.body_template.text, variables, var_order)
                ELSE Ok(<<>>)
    IN  IF url.kind # "Ok" THEN Failed(url)
        ELSE IF method.kind # "Ok" THEN Failed(method)
        ELSE IF FirstFailure(rendered) # 0 THEN Failed(rendered[FirstFailure(rendered)])
        ELSE IF body.kind # "Ok" THEN Failed(body)
        ELSE Built([method |-> method.text,
                    url |-> url.text,
                    headers |-> provided \o custom,
                    body |-> IF endpoint_config.body_template.some
                             THEN SomeBody(body.text) ELSE NoBody])

\* transport_result with error_for_status on the response: a 4xx/5xx status is an Err.
transport_result_status_is_error(answer, call) ==
    IF answer = 0 \/ answer >= 400 THEN HttpError(call) ELSE Response(answer, call)

\* What request.send().await? gives for the transport's answer to call number
\* `call`: 0 is a transport failure, anything else the status of a response.
transport_result(answer, call) ==
    IF answer = 0 THEN HttpError(call) ELSE Response(answer, call)

\* should_retry off by one: the last attempt is followed by a sleep too.
should_retry_inclusive(a, max) == a <= max

\* The guard of the second match arm of send.
should_retry(a, max) == a < max

\* final_error that gives up with the dedicated error kind.
final_error_exceeded(e, last) == MaxRetriesExceeded

\* The third match arm of send: Err(e) => return Err(e).
final_error(e, last) == e

----------------------------------------------------------------------------
(* The inputs of send *)

Slash == Str1("/")

PathTemplates == {Slash \o Str1("c"), Slash \o Placeholder(Str1("a"))}

EndpointMethods ==
    { <<"G", "E", "T">>, <<"p", "o", "s", "t">>, <<"P", "u", "t">>,
      <<"d", "E", "L", "E", "T", "E">>, <<"p", "a", "t", "c", "H">>,
      <<"H", "e", "a", "d">>, <<"O", "P", "T", "I", "O", "N", "S">>,
      <<"I", "N", "V", "A", "L", "I", "D">> }

BodyTemplates == {NoBody, SomeBody(Placeholder(Str1("b")))}

NoEntries == [k \in {} |-> <<>>]

HeaderSets == {NoEntries, [k \in {Str1("K")} |-> Str1("B") \o Placeholder(Str1("a"))]}

QuerySets == {NoEntries, [k \in {Str1("q")} |-> Placeholder(Str1("b"))]}

CustomHeaderNames == {Str1("K")}

CustomHeaderValues == {Str1("v")}

\* 0: the transport fails; otherwise the HTTP status of the response
TransportAnswers == {0, 200, 404, 500}

----------------------------------------------------------------------------
(* The render calls *)

Idle ==
    /\ provider_config = [base_url |-> <<>>, headers |-> NoEntries]
    /\ endpoint_config = [path |-> <<>>, method |-> <<>>, body_template |-> NoBody,
                          query_params |-> NoEntries]
    /\ max_retries = 0
    /\ custom_headers = NoEntries
    /\ var_order = <<>>
    /\ pc = "idle"
    /\ attempt = 0
    /\ last_error = None
    /\ result = None
    /\ executions = 0
    /\ sent = <<>>
    /\ outcomes = <<>>
    /\ delays = 0

RenderInit ==
    /\ template \in Templates
    /\ variables \in VariableSets
    /\ calls = <<>>
    /\ Idle

Render ==
    /\ Len(calls) < MaxCalls
    /\ \E order \in Orders(DOMAIN variables) :
          calls' = Append(calls, [order |-> order,
                                  result |-> render(template, variables, order)])
    /\ UNCHANGED <<template, variables>>
    /\ UNCHANGED svars

RenderNext == Render

RenderSpec == RenderInit /\ [][RenderNext]_vars

----------------------------------------------------------------------------
(* The request builder and send *)

\* RequestBuilder::new
Init ==
    /\ template = <<>>
    /\ calls = <<>>
    /\ variables = NoEntries
    /\ custom_headers = NoEntries
    /\ provider_config \in [base_url : {Str1("h")}, headers : HeaderSets]
    /\ endpoint_config \in [path : PathTemplates, method : EndpointMethods,
                            body_template : BodyTemplates, query_params : QuerySets]
    /\ max_retries \in 0..MaxRetries
    /\ var_order = <<>>
    /\ pc = "building"
    /\ attempt = 0
    /\ last_error = None
    /\ result = None
    /\ executions = 0
    /\ sent = <<>>
    /\ outcomes = <<>>
    /\ delays = 0

Insert(map, key, value) == [k \in DOMAIN map \cup {key} |-> IF k = key THEN value ELSE map[k]]

Extend(map, more) ==
    [k \in DOMAIN map \cup DOMAIN more |-> IF k \in DOMAIN more THEN more[k] ELSE map[k]]

\* RequestBuilder::var
Var ==
    /\ pc = "building"
    /\ \E key \in Names, value \in Values : variables' = Insert(variables, key, value)
    /\ UNCHANGED <<template, calls, provider_config, endpoint_config, max_retries,
                   custom_headers, var_order, pc, attempt, last_error, result,
                   executions, sent, outcomes, delays>>

\* RequestBuilder::vars
Vars ==
    /\ pc = "building"
    /\ \E more \in VariableSets : variables' = Extend(variables, more)
    /\ UNCHANGED <<template, calls, provider_config, endpoint_config, max_retries,
                   custom_headers, var_order, pc, attempt, last_error, result,
                   executions, sent, outcomes, delays>>

\* RequestBuilder::header
Header ==
    /\ pc = "building"
    /\ \E key \in CustomHeaderNames, value \in CustomHeaderValues :
          custom_headers' = Insert(custom_headers, key, value)
    /\ UNCHANGED <<template, calls, variables, provider_config, endpoint_config,
                   max_retries, var_order, pc, attempt, last_error, result,
                   executions, sent, outcomes, delays>>

\* send is called: the builder is consumed, last_error = None, attempt = 0.
Send ==
    /\ pc = "building"
    /\ pc' = "attempting"
    /\ var_order' \in Orders(DOMAIN variables)
    /\ attempt' = 0
    /\ last_error' = None
    /\ UNCHANGED <<template, calls, variables, provider_config, endpoint_config,
                   max_retries, custom_headers, result, executions, sent, outcomes,
                   delays>>

\* One iteration of the loop of send, up to its sleep or its return: `built` is
\* execute_request up to request.send(), `answer` what the transport does with the
\* request when it gets one, `r` the value execute_request returns.
ExecuteRequest ==
    /\ pc = "attempting"
    /\ \E h_order \in Orders(DOMAIN provider_config.headers),
          c_order \in Orders(DOMAIN custom_headers),
          q_order \in Orders(DOMAIN endpoint_config.query_params) :
       \E built \in {assemble(h_order, c_order, q_order)} :
       \E answer \in IF built.kind = "Ok" THEN TransportAnswers ELSE {0} :
       \E r \in {IF built.kind = "Ok" THEN transport_result(answer, Len(sent) + 1)
                                       ELSE built.error} :
          /\ executions' = executions + 1
          /\ sent' = IF built.kind = "Ok" THEN Append(sent, built.request) ELSE sent
          /\ outcomes' = IF built.kind = "Ok" THEN Append(outcomes, answer) ELSE outcomes
          /\ IF r.kind \in {"Response", "Panic"}
             THEN /\ pc' = "done"
                  /\ result' = r
                  /\ UNCHANGED last_error
             ELSE IF should_retry(attempt, max_retries)
             THEN /\ pc' = "sleeping"
                  /\ last_error' = r
                  /\ UNCHANGED result
             ELSE /\ pc' = "done"
                  /\ result' = final_error(r, last_error)
                  /\ UNCHANGED last_error
    /\ UNCHANGED <<template, calls, variables, provider_config, endpoint_config,
                   max_retries, custom_headers, var_order, attempt, delays>>

\* sleep(self.retry_delay).await returns and the loop goes on; past the range
\* of the loop, send returns Err(last_error.unwrap_or(MaxRetriesExceeded)).
Sleep ==
    /\ pc = "sleeping"
    /\ delays' = delays + 1
    /\ attempt' = attempt + 1
    /\ IF attempt + 1 <= max_retries
       THEN /\ pc' = "attempting"
            /\ UNCHANGED result
       ELSE /\ pc' = "done"
            /\ result' = IF last_error = None THEN MaxRetriesExceeded ELSE last_error
    /\ UNCHANGED <<template, calls, variables, provider_config, endpoint_config,
                   max_retries, custom_headers, var_order, last_error, executions,
                   sent, outcomes>>

Next == Var \/ Vars \/ Header \/ Send \/ ExecuteRequest \/ Sleep

Spec == Init /\ [][Next]_vars

----------------------------------------------------------------------------
(* Properties of send *)

AssemblyErrors == {"TemplateError", "InvalidMethod"}

\* The transport was reached and failed on every attempt made.
AllFailed == sent # <<>> /\ \A i \in DOMAIN outcomes : outcomes[i] = 0

\* `tmpl` holds the placeholder of a name the variable set has no entry for.
ReferencesMissing(tmpl) ==
    \E name \in Names : Contains(tmpl, Placeholder(name)) /\ name \notin DOMAIN variables

QueryReferencesMissing ==
    \E k \in DOMAIN endpoint_config.query_params :
        ReferencesMissing(endpoint_config.query_params[k])

AnyReferencesMissing ==
    \/ ReferencesMissing(endpoint_config.path)
    \/ \E k \in DOMAIN provider_config.headers : ReferencesMissing(provider_config.headers[k])
    \/ endpoint_config.body_template.some /\ ReferencesMissing(endpoint_config.body_template.text)
    \/ QueryReferencesMissing

\* C1: an assembly error (TemplateError, InvalidMethod) of execute_request is
\* returned by send at once: one execute_request call, no delay, no transport
\* call, whatever max_retries is.
C1_AssemblyErrorNotRetried ==
    (last_error.kind \in AssemblyErrors \/ result.kind \in AssemblyErrors)
        => /\ pc = "done"
           /\ result.kind \in AssemblyErrors
           /\ executions = 1
           /\ delays = 0
           /\ sent = <<>>

\* C2: when the path, a provider header, the body or a query parameter template
\* references a variable that is not in the variable set, no request reaches the
\* transport, and what send returns is an assembly error.
C2_NoTransportOnMissingVariable ==
    (pc # "building" /\ AnyReferencesMissing)
        => /\ sent = <<>>
           /\ pc = "done" => result.kind \in AssemblyErrors

\* C3: at most max_retries + 1 attempts, each at most one transport call; a
\* delay only after an attempt that is followed by another one (none before the
\* first attempt, none after the last); and when the transport fails on every
\* attempt, exactly max_retries + 1 attempts and max_retries delays, then an error.
C3_AttemptsAndDelays ==
    /\ Len(sent) <= executions
    /\ executions <= max_retries + 1
    /\ Len(sent) <= max_retries + 1
    /\ pc = "attempting" => delays = executions
    /\ pc = "sleeping" => delays = executions - 1 /\ executions <= max_retries
    /\ pc = "done" => delays = executions - 1
    /\ sent # <<>> => Len(sent) = executions
    /\ (pc = "done" /\ AllFailed)
          => /\ Len(sent) = max_retries + 1
             /\ delays = max_retries
             /\ result.kind = "HttpError"

\* C3 witness: max_retries = 3, the transport failed four times, three delays.
C3_Witness ==
    /\ pc = "done"
    /\ max_retries = 3
    /\ outcomes = <<0, 0, 0, 0>>
    /\ delays = 3
    /\ result.kind = "HttpError"

\* C4 as stated: when the transport fails on every one of the max_retries + 1
\* attempts, send returns MaxRetriesExceeded and not a bare transport error.
C4_ReturnsRetriesExhausted ==
    (pc = "done" /\ AllFailed) => result.kind = "MaxRetriesExceeded"

\* C4 amended: when the transport fails on every one of the max_retries + 1
\* attempts, send returns the HttpError of the last attempt itself, unwrapped;
\* send never returns MaxRetriesExceeded.
C4_ReturnsLastTransportError ==
    /\ (pc = "done" /\ AllFailed) => result = HttpError(max_retries + 1)
    /\ result.kind # "MaxRetriesExceeded"

\* C4 witness: three failed attempts with max_retries = 2, the third error returned.
C4_Witness ==
    /\ pc = "done"
    /\ max_retries = 2
    /\ outcomes = <<0, 0, 0>>
    /\ result = HttpError(3)

\* C5: a response of the transport, whatever its status, is the last thing send
\* does: it is the last transport call, send has returned it as its success, and
\* k failures before it mean k + 1 attempts and k delays.
C5_ResponseEndsSend ==
    \A i \in DOMAIN outcomes :
        outcomes[i] # 0
            => /\ i = Len(outcomes)
               /\ pc = "done"
               /\ result = Response(outcomes[i], i)
               /\ executions = i
               /\ delays = i - 1

\* C5 witness: max_retries = 3, two failures, then a 404 response: three attempts.
C5_Witness ==
    /\ pc = "done"
    /\ max_retries = 3
    /\ outcomes = <<0, 0, 404>>
    /\ executions = 3
    /\ result = Response(404, 3)

\* The positions of the headers named `name` in a request.
HeadersNamed(request, name) ==
    {i \in DOMAIN request.headers : request.headers[i].name = name}

\* C11: in every request sent, a provider default header carries its template
\* rendered against the variables, and a name the caller gave a header for too
\* carries the caller's value only: one header of that name, with that value.
C11_CallerHeaderTakesPrecedence ==
    \A n \in DOMAIN sent :
        \A name \in DOMAIN provider_config.headers :
            /\ Cardinality(HeadersNamed(sent[n], name)) = 1
            /\ \A i \in HeadersNamed(sent[n], name) :
                  sent[n].headers[i].value =
                      IF name \in DOMAIN custom_headers
                      THEN custom_headers[name]
                      ELSE render(provider_config.headers[name], variables, var_order).text

\* The method string of the endpoint names one of the seven methods, in any letter case.
MethodIsKnown == to_uppercase(endpoint_config.method) \in MethodNames

\* The path template of the endpoint renders against the variables.
PathRenders == render(endpoint_config.path, variables, var_order).kind = "Ok"

\* A method string in any letter case resolves to its method: every request
\* sent carries it, and InvalidMethod is not an outcome.
MethodResolves ==
    /\ \A n \in DOMAIN sent :
          MethodIsKnown /\ sent[n].method = to_uppercase(endpoint_config.method)
    /\ MethodIsKnown => result.kind # "InvalidMethod" /\ last_error.kind # "InvalidMethod"

\* C12 as stated: a method string in any letter case resolves to its method, and
\* with any other method string send fails with InvalidMethod carrying that
\* string, also when a path, header or body template references a missing variable.
C12_MethodResolvedFirst ==
    /\ MethodResolves
    /\ (pc = "done" /\ ~MethodIsKnown) => result = InvalidMethod(endpoint_config.method)

\* C12 amended: method resolution is the second step, after the URL is built.
\* With a method string that names no method, send fails with InvalidMethod
\* carrying that string when the path template renders, also when a header or
\* body template references a missing variable; when the path template does not
\* render, send fails with the path's missing-variable error instead.
C12_MethodResolvedAfterUrl ==
    /\ MethodResolves
    /\ (pc = "done" /\ ~MethodIsKnown)
          => IF PathRenders
             THEN result = InvalidMethod(endpoint_config.method)
             ELSE result.kind = "TemplateError"

\* C12 witness: an unknown method, a header and a body template that reference
\* missing variables, a path that renders: send returned InvalidMethod.
C12_Witness ==
    /\ pc = "done"
    /\ ~MethodIsKnown
    /\ PathRenders
    /\ endpoint_config.body_template.some
    /\ ReferencesMissing(endpoint_config.body_template.text)
    /\ \E k \in DOMAIN provider_config.headers : ReferencesMissing(provider_config.headers[k])
    /\ result = InvalidMethod(endpoint_config.method)

----------------------------------------------------------------------------
(* Properties of render *)

\* The position of the first "}}" at or after position i, 0 when there is none.
CloseFrom(text, i) ==
    LET hits == {j \in i..Len(text) : MatchAt(text, Close, j)}
    IN  IF hits = {} THEN 0 ELSE CHOOSE j \in hits : \A k \in hits : j <= k

\* A template read left to right: a placeholder begins at "{{" and ends at the
\* next "}}", the text between them is its name; everything else is literal.
RECURSIVE Pieces(_, _)
Pieces(text, i) ==
    IF i > Len(text) THEN <<>>
    ELSE IF MatchAt(text, Open, i) /\ CloseFrom(text, i + 2) # 0
         THEN <<[literal |-> FALSE, text |-> SubSeq(text, i + 2, CloseFrom(text, i + 2) - 1)]>>
              \o Pieces(text, CloseFrom(text, i + 2) + 2)
         ELSE <<[literal |-> TRUE, text |-> <<text[i]>>]>> \o Pieces(text, i + 1)

PlaceholderNames(tmpl) ==
    {Pieces(tmpl, 1)[i].text : i \in {k \in DOMAIN Pieces(tmpl, 1) : ~Pieces(tmpl, 1)[k].literal}}

\* The template with each placeholder replaced by the string form of its value.
Substituted(tmpl, map) ==
    Flatten([i \in DOMAIN Pieces(tmpl, 1) |->
                IF Pieces(tmpl, 1)[i].literal
                THEN Pieces(tmpl, 1)[i].text
                ELSE value_to_string(map[Pieces(tmpl, 1)[i].text])])

\* A "{{" with no "}}" after it.
Unterminated(tmpl) ==
    \E i \in 1..Len(tmpl) : MatchAt(tmpl, Open, i) /\ CloseFrom(tmpl, i + 2) = 0

\* {{ name }}: the placeholder written with a space inside each delimiter.
SpacedPlaceholder(name) == Open \o Str1(" ") \o name \o Str1(" ") \o Close

\* The text of the template outside its placeholders holds no brace.
PlainLiterals(tmpl) ==
    \A i \in DOMAIN Pieces(tmpl, 1) :
        Pieces(tmpl, 1)[i].literal => Pieces(tmpl, 1)[i].text \notin {Str1("{"), Str1("}")}

\* The names without an entry in the variable set whose placeholder the template holds.
MissingNames == {name \in Names \ DOMAIN variables : Contains(template, Placeholder(name))}

\* C6: when every placeholder of the template has an entry in the variable set,
\* render succeeds and returns the template with each placeholder replaced by the
\* string form of its value, whatever text that value holds.  Stated for the
\* templates that hold a placeholder and no brace outside their placeholders.
C6_RenderSubstitutes ==
    \A i \in DOMAIN calls :
        (/\ PlaceholderNames(template) # {}
         /\ PlaceholderNames(template) \subseteq DOMAIN variables
         /\ PlainLiterals(template))
            => calls[i].result = Ok(Substituted(template, variables))

\* C7: when the template holds the complete placeholder of a name that has no
\* entry in the variable set, render returns the missing-variable error naming a
\* placeholder of the template that has no entry, whatever precedes the
\* placeholder; it returns no text and does not panic.
C7_MissingVariableReported ==
    \A i \in DOMAIN calls :
        MissingNames # {}
            => \E name \in MissingNames \cup (PlaceholderNames(template) \ DOMAIN variables) :
                  calls[i].result = TemplateError(name)

\* C8: a template with a "{{" that no "}}" follows makes render fail with the
\* missing-variable error, for every variable set.
C8_UnterminatedFails ==
    \A i \in DOMAIN calls :
        Unterminated(template) => calls[i].result.kind = "TemplateError"

\* C9: for a name of the variable set, the template written with {{ name }} renders
\* to what the same template written with {{name}} renders to.
C9_NameIsTrimmed ==
    \A i \in DOMAIN calls :
        \A name \in DOMAIN variables :
            Contains(template, SpacedPlaceholder(name))
                => calls[i].result =
                      render(Replace(template, SpacedPlaceholder(name), Placeholder(name)),
                             variables, calls[i].order)

\* C10: two render calls on the same template and variable set return the same
\* output or the same error, in whatever order each visits the entries of the map.
C10_RenderDeterministic ==
    \A i, j \in DOMAIN calls : calls[i].result = calls[j].result

====
